---- MODULE Spec2Model ----
(***************************************************************************)
(* Gravitational sandbox (gravisim): the Update schedule of main.rs with   *)
(* its three physics systems and the editor input system, the deferred     *)
(* command queue, and Body::new of body.rs.                                *)
(*                                                                         *)
(* f32 values are modelled as decimal floating point numbers with a        *)
(* four digit mantissa, round-to-nearest, and the IEEE-754 special values  *)
(* NaN and +/-Infinity: [k |-> "fin", m |-> mantissa, e |-> exponent] is   *)
(* m * 10^e with 1000 <= |m| <= 9999 (or m = 0, e = 0).  A result that is  *)
(* representable is exact, any other is rounded, as in f32.                *)
(***************************************************************************)
EXTENDS Integers, Sequences, FiniteSets, TLC

\* ------------------------------------------------------------------ f32

NaN == [k |-> "nan", m |-> 0, e |-> 0]
PInf == [k |-> "inf", m |-> 1, e |-> 0]
NInf == [k |-> "inf", m |-> -1, e |-> 0]
Zero == [k |-> "fin", m |-> 0, e |-> 0]

Abs(n) == IF n < 0 THEN -n ELSE n
Sgn(n) == IF n < 0 THEN -1 ELSE IF n > 0 THEN 1 ELSE 0

RECURSIVE Pow10(_)
Pow10(n) == IF n <= 0 THEN 1 ELSE 10 * Pow10(n - 1)

\* number of decimal digits of n > 0
RECURSIVE NumDigits(_)
NumDigits(n) == IF n < 10 THEN 1 ELSE 1 + NumDigits(n \div 10)

\* the f32 nearest to m * 10^e: mantissa rounded to four digits (half away
\* from zero), overflow to an infinity, underflow to zero
Round(m, e) ==
    IF m = 0 THEN Zero
    ELSE LET a == Abs(m)
             d == NumDigits(a)
             drop == d - 4
             r == IF drop > 0
                  THEN (a + (Pow10(drop) \div 2)) \div Pow10(drop)
                  ELSE a * Pow10(-drop)
             mm == IF r >= 10000 THEN 1000 ELSE r
             ee == IF r >= 10000 THEN e + drop + 1 ELSE e + drop
         IN IF ee > 35 THEN [k |-> "inf", m |-> Sgn(m), e |-> 0]
            ELSE IF ee < -48 THEN Zero
            ELSE [k |-> "fin", m |-> Sgn(m) * mm, e |-> ee]

\* the f32 literal n / 10^p
Lit(n, p) == Round(n, -p)

IsNaN(a) == a.k = "nan"
IsInf(a) == a.k = "inf"
IsFinite(a) == a.k = "fin"
IsZero(a) == a.k = "fin" /\ a.m = 0

Neg(a) == IF a.k = "nan" THEN NaN ELSE [a EXCEPT !.m = -a.m]

Add(a, b) ==
    IF IsNaN(a) \/ IsNaN(b) THEN NaN
    ELSE IF IsInf(a) /\ IsInf(b) THEN (IF a.m = b.m THEN a ELSE NaN)
    ELSE IF IsInf(a) THEN a
    ELSE IF IsInf(b) THEN b
    ELSE IF a.m = 0 THEN b
    ELSE IF b.m = 0 THEN a
    ELSE LET hi == IF a.e >= b.e THEN a ELSE b
             lo == IF a.e >= b.e THEN b ELSE a
             g == hi.e - lo.e
         IN IF g > 5 THEN hi
            ELSE Round(hi.m * Pow10(g) + lo.m, lo.e)

Sub(a, b) == Add(a, Neg(b))

Mul(a, b) ==
    IF IsNaN(a) \/ IsNaN(b) THEN NaN
    ELSE IF IsInf(a) \/ IsInf(b)
         THEN (IF a.m = 0 \/ b.m = 0 THEN NaN
               ELSE [k |-> "inf", m |-> Sgn(a.m) * Sgn(b.m), e |-> 0])
    ELSE Round(a.m * b.m, a.e + b.e)

Div(a, b) ==
    IF IsNaN(a) \/ IsNaN(b) THEN NaN
    ELSE IF IsInf(a) THEN (IF IsInf(b) THEN NaN
                           ELSE [k |-> "inf", m |-> a.m * (IF b.m < 0 THEN -1 ELSE 1), e |-> 0])
    ELSE IF IsInf(b) THEN Zero
    ELSE IF b.m = 0 THEN (IF a.m = 0 THEN NaN
                          ELSE [k |-> "inf", m |-> Sgn(a.m), e |-> 0])
    ELSE Round(Sgn(a.m) * Sgn(b.m) * ((Abs(a.m) * 100000) \div Abs(b.m)),
               a.e - b.e - 5)

\* IEEE comparison: false as soon as one side is NaN
Lt(a, b) ==
    IF IsNaN(a) \/ IsNaN(b) THEN FALSE
    ELSE IF a = b THEN FALSE
    ELSE IF IsInf(a) THEN a.m < 0
    ELSE IF IsInf(b) THEN b.m > 0
    ELSE Sub(a, b).m < 0

\* IEEE equality: NaN equals nothing
Eq(a, b) == ~IsNaN(a) /\ ~IsNaN(b) /\ a = b

RECURSIVE ISqrt(_, _, _)
ISqrt(x, lo, hi) ==
    IF lo >= hi THEN lo
    ELSE LET mid == (lo + hi + 1) \div 2
         IN IF mid * mid <= x THEN ISqrt(x, mid, hi) ELSE ISqrt(x, lo, mid - 1)

Sqrt(a) ==
    IF IsNaN(a) THEN NaN
    ELSE IF a.m < 0 THEN NaN
    ELSE IF IsInf(a) THEN a
    ELSE IF a.m = 0 THEN Zero
    ELSE LET odd == (a.e % 2) # 0
             x == IF odd THEN a.m * 100000 ELSE a.m * 10000
             ex == IF odd THEN (a.e - 5) \div 2 ELSE (a.e - 4) \div 2
             r == ISqrt(x, 0, 31623)
             rr == IF x - r * r > r THEN r + 1 ELSE r
         IN Round(rr, ex)

Powi2(a) == Mul(a, a)
Powi3(a) == Mul(Mul(a, a), a)


\* ----------------------------------------------------------------- Body

Two == Lit(2, 0)
Half == Lit(5, 1)
PI == Lit(3141593, 6)
GRAVITY_CONST == Lit(5, 4)

\* Body::new (the entity id is the model's name for the spawned entity)
NewBody(x, y, v_x, v_y, density, size) ==
    [past_a_x |-> Zero, past_a_y |-> Zero, past_x |-> Zero, past_y |-> Zero,
     x |-> x, y |-> y, v_x |-> v_x, v_y |-> v_y, a_x |-> Zero, a_y |-> Zero,
     mass |-> Mul(Mul(Mul(Div(Lit(4, 0), Lit(3, 0)), PI), Powi3(size)), density),
     size |-> size, density |-> density]

\* the three bodies spawned by setup
SetupBodies ==
    << NewBody(Zero, Zero, Zero, Zero, Lit(1000, 0), Lit(50, 0)),
       NewBody(Lit(200, 0), Zero, Zero, Lit(2, 0), Lit(1, 0), Lit(20, 0)),
       NewBody(Lit(-200, 0), Zero, Zero, Lit(-2, 0), Lit(1, 0), Lit(20, 0)) >>

\* ------------------------------------------------------------- bounds

MaxTicks == 2

\* ------------------------------------------------------------- inputs

\* time.delta_seconds() of a frame: 0 (the first frame) or 2.5 ms
DeltaSeconds == {Zero, Lit(25, 4)}

NoCursor == <<"none", Zero, Zero>>
At(x, y) == <<"at", x, y>>
\* window.cursor_position() mapped to world coordinates, or None
CursorPositions == {At(Zero, Zero), At(Lit(30, 0), Zero)}

Keys == {"KeyR", "KeyE", "KeyZ", "KeyX", "KeyC", "KeyV"}

\* one frame of ButtonInput<KeyCode>, ButtonInput<MouseButton> and the cursor:
\* at most one key event or one button press, release or click (press and
\* release inside one frame) in a frame; the cursor is only read on a button
\* event
NoInput == [key |-> "none", down |-> FALSE, up |-> FALSE, cursor |-> NoCursor]
FrameInputs ==
    {NoInput}
    \cup {[NoInput EXCEPT !.key = k] : k \in Keys}
    \cup {[NoInput EXCEPT !.down = TRUE, !.cursor = c] : c \in CursorPositions \cup {NoCursor}}
    \cup {[NoInput EXCEPT !.up = TRUE, !.cursor = c] : c \in CursorPositions \cup {NoCursor}}
    \cup {[NoInput EXCEPT !.down = TRUE, !.up = TRUE, !.cursor = c] :
               c \in CursorPositions \cup {NoCursor}}

VARIABLES
    bodies,     \* the Body components, in query iteration order, with their entity
    nextId,     \* the next entity id
    sel,        \* Res<SelectedBodyState>
    elastic,    \* Res<ElasticCollisionsEnabled>
    commands,   \* the Commands queued by systems, not yet applied
    phase,      \* "idle" between two runs of the Update schedule, "update" in one
    tick,       \* number of schedule runs started
    delta,      \* time.delta_seconds() of the frame
    input,      \* the frame's input state
    ran,        \* the systems run so far in this schedule run, in order, each with
                \* the entities its Body query held
    gravLog,    \* the pair visits of this run's compute_gravity_system
    collLog,    \* the pair visits of this run's elastic_collision_system
    lastPress   \* history: the cursor at the most recent just_pressed(Left),
                \* NoCursor when it was outside the window or before any press

vars == <<bodies, nextId, sel, elastic, commands, phase, tick, delta, input, ran,
          gravLog, collLog, lastPress>>

\* the most recent left-button press after a frame with input inp
Pressed(inp, last) == IF inp.down THEN inp.cursor ELSE last

Systems == {"update_bodies", "compute_gravity_system", "elastic_collision_system",
            "editor_input_system"}

Ids(bs) == {bs[k].id : k \in 1..Len(bs)}
HasRun(s) == \E k \in 1..Len(ran) : ran[k].sys = s
Ready(s) == phase = "update" /\ ~HasRun(s)
Mark(s) == Append(ran, [sys |-> s, ids |-> Ids(bodies)])

WithId(b, id) == [id |-> id] @@ b

\* SelectedBodyState::default() and ElasticCollisionsEnabled::default()
DefaultSelected == [pos_selected |-> FALSE, selected_pos |-> <<Zero, Zero>>,
                    selected_size |-> Zero, selected_density |-> Zero]

\* the state after the Startup schedule: setup's spawns applied
Init ==
    /\ bodies = [k \in 1..3 |-> WithId(SetupBodies[k], k)]
    /\ nextId = 4
    /\ sel = DefaultSelected
    /\ elastic = FALSE
    /\ commands = <<>>
    /\ phase = "idle"
    /\ tick = 0
    /\ delta = Zero
    /\ input = NoInput
    /\ ran = <<>>
    /\ gravLog = <<>>
    /\ collLog = <<>>
    /\ lastPress = NoCursor

\* a frame begins: Time and the input resources are updated, then the Update
\* schedule starts
StartTick ==
    /\ phase = "idle"
    /\ tick < MaxTicks
    /\ \E dt \in DeltaSeconds, inp \in FrameInputs :
          /\ delta' = dt
          /\ input' = inp
          /\ lastPress' = Pressed(inp, lastPress)
    /\ phase' = "update"
    /\ tick' = tick + 1
    /\ ran' = <<>>
    /\ gravLog' = <<>>
    /\ collLog' = <<>>
    /\ UNCHANGED <<bodies, nextId, sel, elastic, commands>>

\* ------------------------------------------------------ update_bodies

\* a variant of UpdateBody: the position advances by the velocity, not by the
\* velocity times mult
UpdateBodyUnscaled(body, mult) ==
    [body EXCEPT
       !.past_x = body.x,
       !.past_y = body.y,
       !.x = Add(body.x, Add(body.v_x, Mul(Mul(Half, body.a_x), Powi2(mult)))),
       !.y = Add(body.y, Add(body.v_y, Mul(Mul(Half, body.a_y), Powi2(mult)))),
       !.v_x = Add(body.v_x, Mul(Mul(Add(body.a_x, body.past_a_x), mult), Half)),
       !.v_y = Add(body.v_y, Mul(Mul(Add(body.a_y, body.past_a_y), mult), Half)),
       !.past_a_x = Mul(body.a_x, mult),
       !.past_a_y = Mul(body.a_y, mult),
       !.a_x = Zero,
       !.a_y = Zero]

UpdateBody(body, mult) ==
    [body EXCEPT
       !.past_x = body.x,
       !.past_y = body.y,
       !.x = Add(body.x, Add(Mul(body.v_x, mult), Mul(Mul(Half, body.a_x), Powi2(mult)))),
       !.y = Add(body.y, Add(Mul(body.v_y, mult), Mul(Mul(Half, body.a_y), Powi2(mult)))),
       !.v_x = Add(body.v_x, Mul(Mul(Add(body.a_x, body.past_a_x), mult), Half)),
       !.v_y = Add(body.v_y, Mul(Mul(Add(body.a_y, body.past_a_y), mult), Half)),
       !.past_a_x = Mul(body.a_x, mult),
       !.past_a_y = Mul(body.a_y, mult),
       !.a_x = Zero,
       !.a_y = Zero]

update_bodies ==
    /\ Ready("update_bodies")
    /\ LET mult == Mul(delta, Lit(400, 0))
       IN bodies' = [k \in 1..Len(bodies) |-> UpdateBody(bodies[k], mult)]
    /\ ran' = Mark("update_bodies")
    /\ UNCHANGED <<nextId, sel, elastic, commands, phase, tick, lastPress, delta, input,
                   gravLog, collLog>>

\* ------------------------------------------------- pairwise iteration

\* a variant of FirstJ: the inner loop starts at i itself
FirstJFromI(i) == i

\* for i in 0..num_bodies { for j in (i + 1)..num_bodies { ... } }
FirstJ(i) == i + 1

RECURSIVE InnerLoop(_, _, _)
InnerLoop(i, j, n) ==
    IF j >= n THEN <<>> ELSE <<<<i, j>>>> \o InnerLoop(i, j + 1, n)

RECURSIVE OuterLoop(_, _)
OuterLoop(i, n) ==
    IF i >= n THEN <<>> ELSE InnerLoop(i, FirstJ(i), n) \o OuterLoop(i + 1, n)

PairVisits(n) == OuterLoop(0, n)

\* --------------------------------------------- compute_gravity_system

\* one iteration of the loop body on (body1, body2): the two bodies after it
\* and the two contributions added to their accumulators.  The loop body is
\* split at its let bindings: each operator receives the values bound so far.

\* body1.a += unit_direction * acc_scalar1; body2.a -= unit_direction * acc_scalar2
GravityApply(body1, body2, unit_direction, acc_scalar1, acc_scalar2) ==
    [b1 |-> [body1 EXCEPT !.a_x = Add(body1.a_x, Mul(unit_direction[1], acc_scalar1)),
                          !.a_y = Add(body1.a_y, Mul(unit_direction[2], acc_scalar1))],
     b2 |-> [body2 EXCEPT !.a_x = Sub(body2.a_x, Mul(unit_direction[1], acc_scalar2)),
                          !.a_y = Sub(body2.a_y, Mul(unit_direction[2], acc_scalar2))],
     c1 |-> <<Mul(unit_direction[1], acc_scalar1), Mul(unit_direction[2], acc_scalar1)>>,
     c2 |-> <<Neg(Mul(unit_direction[1], acc_scalar2)), Neg(Mul(unit_direction[2], acc_scalar2))>>]

\* acc_scalar1 = force_scalar / body1.mass, acc_scalar2 = force_scalar / body2.mass
GravityForce(body1, body2, unit_direction, force_scalar) ==
    GravityApply(body1, body2, unit_direction,
                 Div(force_scalar, body1.mass), Div(force_scalar, body2.mass))

\* unit_direction and force_scalar from direction and the clamped distance
GravityAt(body1, body2, direction, distance) ==
    GravityForce(body1, body2,
                 <<Div(direction[1], distance), Div(direction[2], distance)>>,
                 Div(Mul(Mul(GRAVITY_CONST, body1.mass), body2.mass), Powi2(distance)))

\* if distance < min_distance { distance = min_distance; }
ClampDistance(distance, min_distance) ==
    IF Lt(distance, min_distance) THEN min_distance ELSE distance

GravityPair(body1, body2) ==
    GravityAt(body1, body2,
              <<Sub(body2.x, body1.x), Sub(body2.y, body1.y)>>,
              ClampDistance(Sqrt(Add(Powi2(Sub(body2.x, body1.x)),
                                     Powi2(Sub(body2.y, body1.y)))),
                            Lit(1, 4)))

RECURSIVE GravityLoop(_, _, _)
GravityLoop(bs, visits, log) ==
    IF visits = <<>> THEN [bodies |-> bs, log |-> log]
    ELSE LET i == Head(visits)[1] + 1
             j == Head(visits)[2] + 1
             r == GravityPair(bs[i], bs[j])
         IN GravityLoop([[bs EXCEPT ![i] = r.b1] EXCEPT ![j] = r.b2],
                        Tail(visits),
                        Append(log, [i |-> i - 1, j |-> j - 1,
                                     pre1 |-> bs[i], pre2 |-> bs[j],
                                     post1 |-> r.b1, post2 |-> r.b2,
                                     c1 |-> r.c1, c2 |-> r.c2]))

compute_gravity_system ==
    /\ Ready("compute_gravity_system")
    /\ LET r == GravityLoop(bodies, PairVisits(Len(bodies)), <<>>)
       IN /\ bodies' = r.bodies
          /\ gravLog' = r.log
    /\ ran' = Mark("compute_gravity_system")
    /\ UNCHANGED <<nextId, sel, elastic, commands, phase, tick, lastPress, delta, input, collLog>>

\* ------------------------------------------- elastic_collision_system

\* Vec2::length, Vec2::normalize (self * self.length().recip()), Vec2::dot
Length(v) == Sqrt(Add(Mul(v[1], v[1]), Mul(v[2], v[2])))
Scale(v, f) == <<Mul(v[1], f), Mul(v[2], f)>>
Normalize(v) == Scale(v, Div(Lit(1, 0), Length(v)))
Dot(v, w) == Add(Mul(v[1], w[1]), Mul(v[2], w[2]))

\* one iteration of the loop body on (body1, body2), split at its let bindings

\* the velocity and position updates of a detected collision
CollideApply(body1, body2, normal, impulse_magnitude, separation_vector) ==
    [hit |-> TRUE,
     b1 |-> [body1 EXCEPT
               !.v_x = Sub(body1.v_x, Mul(Mul(impulse_magnitude, body2.mass), normal[1])),
               !.v_y = Sub(body1.v_y, Mul(Mul(impulse_magnitude, body2.mass), normal[2])),
               !.x = Sub(body1.x, separation_vector[1]),
               !.y = Sub(body1.y, separation_vector[2])],
     b2 |-> [body2 EXCEPT
               !.v_x = Add(body2.v_x, Mul(Mul(impulse_magnitude, body1.mass), normal[1])),
               !.v_y = Add(body2.v_y, Mul(Mul(impulse_magnitude, body1.mass), normal[2])),
               !.x = Add(body2.x, separation_vector[1]),
               !.y = Add(body2.y, separation_vector[2])]]

\* impulse_magnitude and separation_vector from normal and overlap
CollideDetected(body1, body2, normal, overlap) ==
    CollideApply(body1, body2, normal,
                 Div(Mul(Two, Dot(<<Sub(body1.v_x, body2.v_x), Sub(body1.v_y, body2.v_y)>>,
                                  normal)),
                     Add(body1.mass, body2.mass)),
                 Scale(Scale(normal, overlap), Half))

CollideAt(body1, body2, distance_vec, distance, min_distance) ==
    IF Lt(distance, min_distance)
    THEN CollideDetected(body1, body2, Normalize(distance_vec), Sub(min_distance, distance))
    ELSE [hit |-> FALSE, b1 |-> body1, b2 |-> body2]

CollideVec(body1, body2, distance_vec) ==
    CollideAt(body1, body2, distance_vec, Length(distance_vec),
              Add(body1.size, body2.size))

CollidePair(body1, body2) ==
    CollideVec(body1, body2, <<Sub(body2.x, body1.x), Sub(body2.y, body1.y)>>)

RECURSIVE CollideLoop(_, _, _)
CollideLoop(bs, visits, log) ==
    IF visits = <<>> THEN [bodies |-> bs, log |-> log]
    ELSE LET i == Head(visits)[1] + 1
             j == Head(visits)[2] + 1
             r == CollidePair(bs[i], bs[j])
         IN CollideLoop([[bs EXCEPT ![i] = r.b1] EXCEPT ![j] = r.b2],
                        Tail(visits),
                        Append(log, [i |-> i - 1, j |-> j - 1,
                                     pre1 |-> bs[i], pre2 |-> bs[j],
                                     post1 |-> r.b1, post2 |-> r.b2,
                                     hit |-> r.hit]))

\* a variant of elastic_collision_system: the flag is not consulted
elastic_collision_unguarded ==
    /\ Ready("elastic_collision_system")
    /\ LET r == CollideLoop(bodies, PairVisits(Len(bodies)), <<>>)
       IN /\ bodies' = r.bodies
          /\ collLog' = r.log
    /\ ran' = Mark("elastic_collision_system")
    /\ UNCHANGED <<nextId, sel, elastic, commands, phase, tick, lastPress, delta, input, gravLog>>

elastic_collision_system ==
    /\ Ready("elastic_collision_system")
    /\ IF ~elastic
       THEN UNCHANGED <<bodies, collLog>>
       ELSE LET r == CollideLoop(bodies, PairVisits(Len(bodies)), <<>>)
            IN /\ bodies' = r.bodies
               /\ collLog' = r.log
    /\ ran' = Mark("elastic_collision_system")
    /\ UNCHANGED <<nextId, sel, elastic, commands, phase, tick, lastPress, delta, input, gravLog>>

\* ------------------------------------------------ editor_input_system

Clamp1(v) == IF Lt(v, Lit(1, 0)) THEN Lit(1, 0) ELSE v

\* if keyboard_input.just_pressed(KeyCode::KeyR): the despawn commands
ResetCommands(inp, bs) ==
    IF inp.key = "KeyR"
    THEN [k \in 1..Len(bs) |-> [op |-> "despawn", id |-> bs[k].id]]
    ELSE <<>>

ResetSelected(inp, s) ==
    IF inp.key = "KeyR"
    THEN [s EXCEPT !.pos_selected = FALSE, !.selected_size = Lit(50, 0),
                   !.selected_density = Lit(1, 0)]
    ELSE s

\* if keyboard_input.just_pressed(KeyCode::KeyE)
ToggleElastic(inp, flag) == IF inp.key = "KeyE" THEN ~flag ELSE flag

\* if mouse_button_input.just_pressed(MouseButton::Left)
PressSelected(inp, s) ==
    IF inp.down /\ inp.cursor[1] = "at"
    THEN [s EXCEPT !.pos_selected = TRUE,
                   !.selected_pos = <<inp.cursor[2], inp.cursor[3]>>]
    ELSE s

\* if mouse_button_input.just_released(MouseButton::Left)
Releases(inp, s) == inp.up /\ inp.cursor[1] = "at" /\ s.pos_selected

ReleaseCommands(inp, s) ==
    IF Releases(inp, s)
    THEN LET velocity == <<Div(Sub(inp.cursor[2], s.selected_pos[1]), Lit(50, 0)),
                           Div(Sub(inp.cursor[3], s.selected_pos[2]), Lit(50, 0))>>
         IN << [op |-> "spawn",
                body |-> NewBody(s.selected_pos[1], s.selected_pos[2],
                                 velocity[1], velocity[2],
                                 s.selected_density, s.selected_size)] >>
    ELSE <<>>

ReleaseSelected(inp, s) ==
    IF Releases(inp, s) THEN [s EXCEPT !.pos_selected = FALSE] ELSE s

\* Z/X change the size, C/V the density
AdjustSelected(inp, s) ==
    LET size_speed == Lit(2, 1)
        density_speed == Lit(1, 1)
        s1 == IF inp.key = "KeyZ"
              THEN [s EXCEPT !.selected_size = Clamp1(Add(s.selected_size, size_speed))]
              ELSE s
        s2 == IF inp.key = "KeyX"
              THEN [s1 EXCEPT !.selected_size = Clamp1(Sub(s1.selected_size, size_speed))]
              ELSE s1
        s3 == IF inp.key = "KeyC"
              THEN [s2 EXCEPT !.selected_density = Clamp1(Sub(s2.selected_density, density_speed))]
              ELSE s2
        s4 == IF inp.key = "KeyV"
              THEN [s3 EXCEPT !.selected_density = Clamp1(Add(s3.selected_density, density_speed))]
              ELSE s3
    IN s4

\* applying queued commands to the world: despawn removes the entity, spawn
\* adds one
RECURSIVE ApplyCommands(_, _, _)
ApplyCommands(bs, id, cmds) ==
    IF cmds = <<>> THEN [bodies |-> bs, nextId |-> id]
    ELSE LET c == Head(cmds)
         IN IF c.op = "despawn"
            THEN ApplyCommands(SelectSeq(bs, LAMBDA b : b.id # c.id), id, Tail(cmds))
            ELSE ApplyCommands(Append(bs, WithId(c.body, id)), id + 1, Tail(cmds))

\* a variant of editor_input_system: its commands act on the world at once
editor_input_immediate ==
    /\ Ready("editor_input_system")
    /\ LET sR == ResetSelected(input, sel)
           sP == PressSelected(input, sR)
           r == ApplyCommands(bodies, nextId,
                              ResetCommands(input, bodies) \o ReleaseCommands(input, sP))
       IN /\ bodies' = r.bodies
          /\ nextId' = r.nextId
          /\ sel' = AdjustSelected(input, ReleaseSelected(input, sP))
    /\ elastic' = ToggleElastic(input, elastic)
    /\ ran' = Mark("editor_input_system")
    /\ UNCHANGED <<commands, phase, tick, lastPress, delta, input, gravLog, collLog>>

\* Commands are deferred: the system only queues them
editor_input_system ==
    /\ Ready("editor_input_system")
    /\ LET sR == ResetSelected(input, sel)
           sP == PressSelected(input, sR)
       IN /\ commands' = commands \o ResetCommands(input, bodies)
                                  \o ReleaseCommands(input, sP)
          /\ sel' = AdjustSelected(input, ReleaseSelected(input, sP))
    /\ elastic' = ToggleElastic(input, elastic)
    /\ ran' = Mark("editor_input_system")
    /\ UNCHANGED <<bodies, nextId, phase, tick, lastPress, delta, input, gravLog, collLog>>

\* ---------------------------------------------------- end of schedule

\* every system of the Update schedule has run: the schedule applies the queued
\* commands and the run ends; the frame's just_pressed/just_released input is
\* cleared before the next frame
ApplyDeferred ==
    /\ phase = "update"
    /\ \A s \in Systems : HasRun(s)
    /\ LET r == ApplyCommands(bodies, nextId, commands)
       IN /\ bodies' = r.bodies
          /\ nextId' = r.nextId
    /\ commands' = <<>>
    /\ phase' = "idle"
    /\ input' = NoInput
    /\ delta' = Zero
    /\ ran' = <<>>
    /\ gravLog' = <<>>
    /\ collLog' = <<>>
    /\ UNCHANGED <<sel, elastic, tick, lastPress>>

Next ==
    \/ StartTick
    \/ update_bodies
    \/ compute_gravity_system
    \/ elastic_collision_system
    \/ editor_input_system
    \/ ApplyDeferred

Spec == Init /\ [][Next]_vars

\* ------------------------------------------------------------ a session
\* One editing session, frame by frame: E enables collisions; then Z makes
\* the selected size 1 (density still 0), or R clears the world and selects
\* size 50 and density 1, or nothing is pressed; a drag from (100, 0) to
\* (101, 0) spawns a body moving towards +x; a click at (101, 0) spawns a body
\* at rest in its way; a last frame runs the physics over them.  The first
\* frame's elapsed time is zero, as Time reports it; the order of the systems
\* stays free in every frame.
SessionDeltas ==
    << {Zero}, {Lit(25, 4)}, {Lit(25, 4)}, {Lit(25, 4)}, {Lit(25, 4)}, DeltaSeconds >>

SessionInputs ==
    << {[NoInput EXCEPT !.key = "KeyE"]},
       {[NoInput EXCEPT !.key = "KeyZ"], [NoInput EXCEPT !.key = "KeyR"], NoInput},
       {[NoInput EXCEPT !.down = TRUE, !.cursor = At(Lit(100, 0), Zero)]},
       {[NoInput EXCEPT !.up = TRUE, !.cursor = At(Lit(101, 0), Zero)]},
       {[NoInput EXCEPT !.down = TRUE, !.up = TRUE, !.cursor = At(Lit(101, 0), Zero)]},
       {NoInput} >>

StartSessionTick ==
    /\ phase = "idle"
    /\ tick < Len(SessionInputs)
    /\ \E dt \in SessionDeltas[tick + 1], inp \in SessionInputs[tick + 1] :
          /\ delta' = dt
          /\ input' = inp
          /\ lastPress' = Pressed(inp, lastPress)
    /\ phase' = "update"
    /\ tick' = tick + 1
    /\ ran' = <<>>
    /\ gravLog' = <<>>
    /\ collLog' = <<>>
    /\ UNCHANGED <<bodies, nextId, sel, elastic, commands>>

NextSession ==
    \/ StartSessionTick
    \/ update_bodies
    \/ compute_gravity_system
    \/ elastic_collision_system
    \/ editor_input_system
    \/ ApplyDeferred

SpecSession == Init /\ [][NextSession]_vars

\* ------------------------------------------------------ the mouse editor
\* Mouse work with the cursor leaving the window: R clears the world or
\* nothing is pressed; the button goes down at (100, 0); it comes up at
\* (101, 0) or outside the window; it may go down again outside the window;
\* it may come up at (130, 0); a last frame passes.  The first frame's elapsed
\* time is zero, later ones vary; the order of the systems stays free.
LongDelta == Lit(1, 2)

EditorDeltas ==
    << {Zero}, {Lit(25, 4)}, {Lit(25, 4)}, DeltaSeconds, {LongDelta},
       DeltaSeconds \cup {LongDelta} >>

EditorInputs ==
    << {[NoInput EXCEPT !.key = "KeyR"], NoInput},
       {[NoInput EXCEPT !.down = TRUE, !.cursor = At(Lit(100, 0), Zero)]},
       {[NoInput EXCEPT !.up = TRUE, !.cursor = At(Lit(101, 0), Zero)],
        [NoInput EXCEPT !.up = TRUE]},
       {[NoInput EXCEPT !.down = TRUE], NoInput},
       {[NoInput EXCEPT !.up = TRUE, !.cursor = At(Lit(130, 0), Zero)], NoInput},
       {NoInput} >>

StartEditorTick ==
    /\ phase = "idle"
    /\ tick < Len(EditorInputs)
    /\ \E dt \in EditorDeltas[tick + 1], inp \in EditorInputs[tick + 1] :
          /\ delta' = dt
          /\ input' = inp
          /\ lastPress' = Pressed(inp, lastPress)
    /\ phase' = "update"
    /\ tick' = tick + 1
    /\ ran' = <<>>
    /\ gravLog' = <<>>
    /\ collLog' = <<>>
    /\ UNCHANGED <<bodies, nextId, sel, elastic, commands>>

NextEditor ==
    \/ StartEditorTick
    \/ update_bodies
    \/ compute_gravity_system
    \/ elastic_collision_system
    \/ editor_input_system
    \/ ApplyDeferred

SpecEditor == Init /\ [][NextEditor]_vars

\* ------------------------------------------------------------ helpers

\* the step of system s in a schedule run
Steps(s) == Ready(s) /\ ran' = Mark(s)

\* position of system s in this schedule run (0: not run yet)
Position(s) == IF HasRun(s) THEN CHOOSE k \in 1..Len(ran) : ran[k].sys = s ELSE 0

AbsF(a) == IF IsNaN(a) THEN NaN ELSE [a EXCEPT !.m = Abs(a.m)]
MaxF(a, b) == IF Lt(a, b) THEN b ELSE a
\* equal up to the rounding of a few f32 operations (one percent); never for a
\* NaN or an infinity
Close(a, b) ==
    /\ IsFinite(a)
    /\ IsFinite(b)
    /\ ~Lt(Mul(Lit(1, 2), MaxF(AbsF(a), AbsF(b))), AbsF(Sub(a, b)))

Defined(a) == IsFinite(a)

Overlapping(b1, b2) ==
    Lt(Length(<<Sub(b2.x, b1.x), Sub(b2.y, b1.y)>>), Add(b1.size, b2.size))

\* ------------------------------------------------------------- claims

\* C1: in every run of the Update schedule the three physics systems run at
\* most once each and in the order update_bodies, compute_gravity_system,
\* elastic_collision_system: a later one has never run before an earlier one.
C1_PassesInOrder ==
    /\ \A k, l \in 1..Len(ran) : ran[k].sys = ran[l].sys => k = l
    /\ HasRun("compute_gravity_system") =>
          /\ HasRun("update_bodies")
          /\ Position("update_bodies") < Position("compute_gravity_system")
    /\ HasRun("elastic_collision_system") =>
          /\ HasRun("compute_gravity_system")
          /\ Position("compute_gravity_system") < Position("elastic_collision_system")

\* C2: every live body has size >= 1.0, density >= 1.0 and mass > 0.
C2_BodiesPhysical ==
    \A k \in 1..Len(bodies) :
        /\ ~Lt(bodies[k].size, Lit(1, 0)) /\ ~IsNaN(bodies[k].size)
        /\ ~Lt(bodies[k].density, Lit(1, 0)) /\ ~IsNaN(bodies[k].density)
        /\ Lt(Zero, bodies[k].mass)

\* C4: when compute_gravity_system begins, the acceleration accumulator of
\* every live body is exactly zero.
C4_AccZeroAtGravityStart ==
    [][Steps("compute_gravity_system") =>
          \A k \in 1..Len(bodies) : bodies[k].a_x = Zero /\ bodies[k].a_y = Zero]_vars

PosVel(bs) == [k \in 1..Len(bs) |-> <<bs[k].x, bs[k].y, bs[k].v_x, bs[k].v_y>>]

\* C5: in a schedule run with time.delta_seconds() = 0 no system changes the
\* position or the velocity of a body, whatever the collision flag.
C5_ZeroTickKeepsPosVel ==
    [][(phase = "update" /\ phase' = "update" /\ delta = Zero) =>
          PosVel(bodies') = PosVel(bodies)]_vars

\* C6: a collision pair visit on two bodies with the same center leaves the
\* velocity and the position of both bodies defined (no NaN, no infinity).
C6_CoincidentStaysDefined ==
    \A k \in 1..Len(collLog) :
        LET v == collLog[k]
        IN (/\ v.pre1.x = v.pre2.x /\ v.pre1.y = v.pre2.y
            /\ \A f \in {"x", "y", "v_x", "v_y", "mass", "size"} :
                   Defined(v.pre1[f]) /\ Defined(v.pre2[f]))
           => \A f \in {"x", "y", "v_x", "v_y"} :
                   Defined(v.post1[f]) /\ Defined(v.post2[f])

\* a pass over n bodies visits every unordered pair of distinct indices once
VisitsEachPairOnce(log, n) ==
    /\ Len(log) * 2 = n * (n - 1)
    /\ \A k \in 1..Len(log) :
          /\ log[k].i # log[k].j
          /\ log[k].i \in 0..(n - 1)
          /\ log[k].j \in 0..(n - 1)
    /\ \A i, j \in 0..(n - 1) :
          i < j => Cardinality({k \in 1..Len(log) :
                                   {log[k].i, log[k].j} = {i, j}}) = 1

\* C3: one pass of compute_gravity_system, and one enabled pass of
\* elastic_collision_system, over n bodies visits every unordered pair {i, j}
\* of distinct bodies exactly once, n(n-1)/2 visits in all, never a pair
\* (i, i), and the two bodies of a visit are distinct entities.
C3_EachPairOnce ==
    [][/\ Steps("compute_gravity_system") =>
             /\ VisitsEachPairOnce(gravLog', Len(bodies))
             /\ \A k \in 1..Len(gravLog') : gravLog'[k].pre1.id # gravLog'[k].pre2.id
       /\ (Steps("elastic_collision_system") /\ elastic) =>
             /\ VisitsEachPairOnce(collLog', Len(bodies))
             /\ \A k \in 1..Len(collLog') : collLog'[k].pre1.id # collLog'[k].pre2.id]_vars

\* both passes have run over five bodies in one schedule run
C3_Witness == Len(bodies) = 5 /\ Len(gravLog) = 10 /\ Len(collLog) = 10

\* C8: within one run of the Update schedule every system sees the same set
\* of live bodies, the one still live now: a despawn or spawn queued by
\* editor_input_system has no effect until the run has ended, wherever the
\* editor runs among the systems.
C8_TickAtomic ==
    phase = "update" => \A k \in 1..Len(ran) : ran[k].ids = Ids(bodies)

\* the editor has queued commands and physics systems have run before and
\* after it
C8_Witness ==
    /\ Len(ran) = 4
    /\ ran[2].sys = "editor_input_system"
    /\ commands # <<>>

\* C9: the collision flag is off at startup and changes only in a step of
\* editor_input_system with E just pressed, which flips it; a run of
\* elastic_collision_system with the flag off changes no body.
C9_FlagGatesCollisions ==
    /\ ~elastic
    /\ [][/\ elastic' # elastic => (Steps("editor_input_system") /\ input.key = "KeyE")
          /\ (Steps("editor_input_system") /\ input.key = "KeyE") => elastic' = ~elastic
          /\ (Steps("elastic_collision_system") /\ ~elastic) => bodies' = bodies]_vars

\* elastic_collision_system has just run with the flag off over bodies that
\* overlap
C9_Witness ==
    /\ ran # <<>>
    /\ ran[Len(ran)].sys = "elastic_collision_system"
    /\ ~elastic
    /\ collLog = <<>>
    /\ \E i, j \in 1..Len(bodies) : i < j /\ Overlapping(bodies[i], bodies[j])

\* C10: in every pair visit of compute_gravity_system the contribution added
\* to body 1's acceleration times body 1's mass is the negation of the
\* contribution added to body 2's acceleration times body 2's mass (up to
\* rounding), and each contribution is added to the accumulator.
C10_EqualAndOpposite ==
    \A k \in 1..Len(gravLog) :
        LET v == gravLog[k]
        IN /\ \A d \in 1..2 :
                 Close(Mul(v.c1[d], v.pre1.mass), Neg(Mul(v.c2[d], v.pre2.mass)))
           /\ v.post1.a_x = Add(v.pre1.a_x, v.c1[1])
           /\ v.post1.a_y = Add(v.pre1.a_y, v.c1[2])
           /\ v.post2.a_x = Add(v.pre2.a_x, v.c2[1])
           /\ v.post2.a_y = Add(v.pre2.a_y, v.c2[2])

\* equal up to one percent of scale; never for a NaN or an infinity
Near(a, b, scale) ==
    /\ IsFinite(a)
    /\ IsFinite(b)
    /\ ~Lt(Mul(Lit(1, 2), AbsF(scale)), AbsF(Sub(a, b)))

\* the vector from the first to the second body of a visit, before and after
Between(b1, b2) == <<Sub(b2.x, b1.x), Sub(b2.y, b1.y)>>
Velocity(b) == <<b.v_x, b.v_y>>
\* the first body's velocity relative to the second along and across normal
Approach(b1, b2, normal) ==
    Dot(<<Sub(b1.v_x, b2.v_x), Sub(b1.v_y, b2.v_y)>>, normal)
Sideways(b1, b2, normal) ==
    Sub(Mul(Sub(b1.v_x, b2.v_x), normal[2]), Mul(Sub(b1.v_y, b2.v_y), normal[1]))

\* two bodies of equal mass that overlap with distinct centers and close in on
\* each other along the line of their centers
HeadOnEqualMass(b1, b2) ==
    /\ Eq(b1.mass, b2.mass)
    /\ Lt(Zero, Length(Between(b1, b2)))
    /\ Overlapping(b1, b2)
    /\ Lt(Zero, Approach(b1, b2, Normalize(Between(b1, b2))))
    /\ IsZero(Sideways(b1, b2, Normalize(Between(b1, b2))))

\* the velocities along normal are exchanged and the centers end at distance
\* size1 + size2, up to rounding
Exchanged(v, normal) ==
    /\ Near(Dot(Velocity(v.post1), normal), Dot(Velocity(v.pre2), normal),
            Approach(v.pre1, v.pre2, normal))
    /\ Near(Dot(Velocity(v.post2), normal), Dot(Velocity(v.pre1), normal),
            Approach(v.pre1, v.pre2, normal))
    /\ Close(Length(Between(v.post1, v.post2)), Add(v.pre1.size, v.pre2.size))

\* C7: in every pair visit of an enabled elastic_collision_system pass on two
\* equal-mass bodies that overlap (0 < distance < size1 + size2) on a head-on
\* course, the visit exchanges their velocity components along the contact
\* normal and leaves their centers at distance size1 + size2 (up to rounding).
C7_HeadOnExchange ==
    \A k \in 1..Len(collLog) :
        HeadOnEqualMass(collLog[k].pre1, collLog[k].pre2) =>
            Exchanged(collLog[k],
                      Normalize(Between(collLog[k].pre1, collLog[k].pre2)))

\* the spawn commands queued by a step
NewSpawns ==
    LET new == SubSeq(commands', Len(commands) + 1, Len(commands'))
    IN {k \in 1..Len(new) : new[k].op = "spawn"}

SpawnedAt(k) == commands'[Len(commands) + k].body

\* C12: a step of editor_input_system queues at most one spawn, and the body
\* it spawns is created at the cursor position of the most recent left-button
\* press, which was made inside the window.
C12_SpawnAtLatestPress ==
    [][Steps("editor_input_system") =>
          /\ Cardinality(NewSpawns) <= 1
          /\ \A k \in NewSpawns :
                /\ lastPress[1] = "at"
                /\ SpawnedAt(k).x = lastPress[2]
                /\ SpawnedAt(k).y = lastPress[3]]_vars

\* the live set holds exactly one body and collisions are disabled
Solo == Len(bodies) = 1 /\ ~elastic

\* the step multiplier of the frame
StepMult == Mul(delta, Lit(400, 0))

\* C11: while the live set holds exactly one body and collisions are
\* disabled, the body's acceleration accumulator and past acceleration are
\* zero, no step changes its velocity, so it keeps its velocity at spawn, and
\* only update_bodies changes its position, by velocity times the step
\* multiplier.
C11_SoloBodyCoasts ==
    /\ [](Solo => /\ bodies[1].a_x = Zero
                  /\ bodies[1].a_y = Zero
                  /\ bodies[1].past_a_x = Zero
                  /\ bodies[1].past_a_y = Zero)
    /\ [][(Solo /\ Len(bodies') = 1 /\ ~elastic') =>
             /\ bodies'[1].id = bodies[1].id
             /\ bodies'[1].v_x = bodies[1].v_x
             /\ bodies'[1].v_y = bodies[1].v_y
             /\ IF Steps("update_bodies")
                THEN /\ bodies'[1].x = Add(bodies[1].x, Mul(bodies[1].v_x, StepMult))
                     /\ bodies'[1].y = Add(bodies[1].y, Mul(bodies[1].v_y, StepMult))
                ELSE /\ bodies'[1].x = bodies[1].x
                     /\ bodies'[1].y = bodies[1].y]_vars

\* the body spawned by the drag from (100, 0) to (101, 0) into the cleared
\* world is in its third schedule run alone and has just moved in a long
\* frame, after the gravity pass of that frame
C11_Witness ==
    /\ Solo
    /\ tick = Len(EditorInputs)
    /\ delta = LongDelta
    /\ ran # <<>>
    /\ ran[Len(ran)].sys = "update_bodies"
    /\ HasRun("compute_gravity_system")
    /\ bodies[1].x # bodies[1].past_x
    /\ bodies[1].v_x = Lit(2, 2)

====
